---- MODULE Spec2Model ----
(***************************************************************************)
(* Model of the anatomical workflow builder of fmriprep-rodents:           *)
(*   src/fmriprep/patch/workflows/anatomical.py  init_anat_preproc_wf      *)
(*   src/fprodents/tests/rs_fmri.py              init_anat_norm_wf         *)
(* The builder is followed statement block by statement block; pc holds    *)
(* the source line the builder is about to execute.                        *)
(***************************************************************************)
EXTENDS Integers, Sequences, FiniteSets, TLC

VARIABLES
    arg_mode,              \* the skull_strip_mode argument as passed by the caller
    skull_strip_mode,      \* the local name, rebound at line 288
    existing_derivatives,  \* the caller's mapping (the same object over all calls)
    derivs0,               \* the mapping as it was before the first call
    t2w,                   \* the batch of input images
    spaces,                \* spaces.get_spaces(nonstandard=False, dim=(3,))
    pc,                    \* next source line of init_anat_preproc_wf
    nodes,                 \* nodes of the workflow graph
    edges,                 \* connections of the workflow graph
    created,               \* node objects constructed so far (in the graph or not)
    outputnode_inputs,     \* outputnode.inputs fields set directly
    reports_inputs,        \* anat_reports_wf.inputs.inputnode fields set directly
    node_iterables,        \* node name -> the key sequence of its iterables
    probeCalls,            \* invocations of _is_skull_stripped in this call
    outcome,               \* "running", "returned" or the name of the raised error
    call,                  \* number of the current call of init_anat_preproc_wf
    firstOutcome,          \* outcome of the first call, once a second call started
    templates,             \* init_anat_norm_wf: the templates argument
    normPc,                \* init_anat_norm_wf: next source line
    normOutcome,           \* init_anat_norm_wf: "running", "returned" or error
    normArgs,              \* init_anat_norm_wf: the debug and omp_nthreads arguments
    normNodes,             \* init_anat_norm_wf: nodes constructed
    registration,          \* init_anat_norm_wf: settings of the registration node
    normEdges,             \* init_anat_norm_wf: connections of its workflow
    normIterables,         \* init_anat_norm_wf: inputnode.iterables
    ntpls,                 \* init_anat_norm_wf: len(templates)
    K,                     \* execution: key sequence of the expansion
    branch,                \* execution: status of the branch of each key index
    arrived,               \* execution: branch indices in completion order
    join,                  \* execution: "waiting", "released" or "failed"
    joined,                \* execution: field -> joined collection, once released
    downstream,            \* execution: values handed to the consumers of outputnode
    imgs,                  \* probe: the batch being classified
    imgVerdicts,           \* probe: what _check_img returned for each image it loaded
    verdict                \* probe: "running", "True" or "False"

prepVars == <<arg_mode, skull_strip_mode, existing_derivatives, derivs0, t2w, spaces,
              pc, nodes, edges, created, outputnode_inputs, reports_inputs,
              node_iterables, probeCalls, outcome, call, firstOutcome>>
normVars == <<templates, normArgs, normPc, normOutcome, normNodes, registration,
              normEdges, normIterables, ntpls>>
execVars == <<K, branch, arrived, join, joined, downstream>>
probeVars == <<imgs, imgVerdicts, verdict>>
vars == <<prepVars, normVars, execVars, probeVars>>

----------------------------------------------------------------------------
(* Bounds of the model *)

MaxKeys == 3        \* longest template key sequence
MaxT2w == 2         \* largest batch of input images of the builder
MaxCalls == 2       \* calls of init_anat_preproc_wf with the same arguments
MaxImgs == 2        \* largest batch handed to the probe on its own
MaxThreads == 2     \* largest omp_nthreads
Dim == 3            \* edge length of the cubic test volumes

(* Program constants *)

SkullStripThreshold == 10

----------------------------------------------------------------------------
(* Generic helpers *)

RECURSIVE SumSeq(_)
SumSeq(s) == IF s = <<>> THEN 0 ELSE Head(s) + SumSeq(Tail(s))

SeqsUpTo(S, n) == UNION {[1..m -> S] : m \in 0..n}

IsInjective(s) == \A i, j \in DOMAIN s : s[i] = s[j] => i = j

EmptyMap == [f \in {} |-> 0]

TemplateKeys == {"Fischer344", "MouseIn", "TMBTA"}

\* ordered key sequences without repetition, at most MaxKeys long
KeySeqs == {s \in SeqsUpTo(TemplateKeys, MaxKeys) : IsInjective(s)}

----------------------------------------------------------------------------
(* Images.  An image file is a cubic 3-D volume of Dim voxels per axis that   *)
(* holds `fill` everywhere except for the value `val` at the voxel `hot`.     *)

Axis == 1..Dim
Voxels == Axis \X Axis \X Axis

\* one voxel of each kind: a corner, an edge, the centre of each of the six
\* faces, and an interior voxel
HotVoxels == {<<1, 1, 1>>, <<1, 1, 2>>,
              <<1, 2, 2>>, <<Dim, 2, 2>>, <<2, 1, 2>>, <<2, Dim, 2>>,
              <<2, 2, 1>>, <<2, 2, Dim>>, <<2, 2, 2>>}

HotVals == {-SkullStripThreshold, 3, 5, SkullStripThreshold - 1, SkullStripThreshold}

SparseImages == [hot : HotVoxels, val : HotVals, fill : {0}]
UniformImages == [hot : {<<2, 2, 2>>}, val : {1}, fill : {1}]
Images == SparseImages \cup UniformImages

\* the two images the builder's batches are drawn from: a zero-bordered volume
\* and a uniform volume of intensity 1
StrippedImage == [hot |-> <<2, 2, 2>>, val |-> SkullStripThreshold, fill |-> 0]
UnstrippedImage == [hot |-> <<2, 2, 2>>, val |-> 1, fill |-> 1]

\* nb.load(img).get_fdata(dtype=np.float32): the voxel array of the file
get_fdata(img) == [p \in Voxels |-> IF p = img.hot THEN img.val ELSE img.fill]

Abs(x) == IF x < 0 THEN -x ELSE x

\* np.abs, elementwise
np_abs(data) == [p \in DOMAIN data |-> Abs(data[p])]

\* the voxel <<a, b>> of the slice i along an axis
SlicePoint(axis, i, a, b) ==
    CASE axis = 1 -> <<i, a, b>>
      [] axis = 2 -> <<a, i, b>>
      [] axis = 3 -> <<a, b, i>>

\* data[i, :, :].sum() (axis 1), data[:, i, :].sum() (axis 2), data[:, :, i].sum() (axis 3)
SliceSum(data, axis, i) ==
    SumSeq([n \in 1..(Dim * Dim) |->
              data[SlicePoint(axis, i, ((n - 1) \div Dim) + 1, ((n - 1) % Dim) + 1)]])

\* _check_img with the comparison not strict
check_img_le(img) ==
    LET data == np_abs(get_fdata(img))
        sidevals == SliceSum(data, 1, 1) + SliceSum(data, 1, Dim)
                  + SliceSum(data, 2, 1) + SliceSum(data, 2, Dim)
                  + SliceSum(data, 3, 1) + SliceSum(data, 3, Dim)
    IN  sidevals <= SkullStripThreshold

_check_img(img) ==
    LET data == np_abs(get_fdata(img))
        sidevals == SliceSum(data, 1, 1) + SliceSum(data, 1, Dim)
                  + SliceSum(data, 2, 1) + SliceSum(data, 2, Dim)
                  + SliceSum(data, 3, 1) + SliceSum(data, 3, Dim)
    IN  sidevals < SkullStripThreshold

\* all(_check_img(img) for img in imgs)
_is_skull_stripped(batch) == \A i \in DOMAIN batch : _check_img(batch[i])

\* the images the generator inside all(...) loads: all() stops at the first False
LoadedCount(batch) ==
    IF \E i \in DOMAIN batch : ~_check_img(batch[i])
    THEN CHOOSE i \in DOMAIN batch :
             /\ ~_check_img(batch[i])
             /\ \A j \in 1..(i - 1) : _check_img(batch[j])
    ELSE Len(batch)

BoolStr(b) == IF b THEN "True" ELSE "False"

----------------------------------------------------------------------------
(* The workflow graph.  A connection is <<source node, source port,          *)
(* destination node, destination port>>.                                     *)

\* fields of the IdentityInterface nodes init_anat_preproc_wf declares itself
inputnode_fields == {"t2w", "roi", "flair", "subjects_dir", "subject_id"}
outputnode_fields == {"t2w_preproc", "t2w_mask", "t2w_dseg", "t2w_tpms",
                      "std_preproc", "std_mask", "std_dseg", "std_tpms",
                      "anat2std_xfm", "std2anat_xfm", "template"}
buffernode_fields == {"t2w_brain", "t2w_mask"}
templatesource_fields == {"template"}

IdentityFields == [inputnode |-> inputnode_fields,
                   outputnode |-> outputnode_fields,
                   buffernode |-> buffernode_fields,
                   templatesource |-> templatesource_fields]

\* the ports of the sub-workflows and interfaces built elsewhere (smriprep,
\* nirodents, niworkflows, fsl) are taken to exist as the builder names them
PortDeclared(fields, node, port) ==
    node \in DOMAIN fields => port \in fields[node]

\* the compute nodes of the non-cached path
ComputeNodes == {"anat_template_wf", "anat_validate", "brain_extraction_wf",
                 "anat_norm_wf", "t1w_dseg", "lut_t1w_dseg", "fast2bids",
                 "anat_derivatives_wf"}

\* first failure of a list of connections, in order, or "ok"
RECURSIVE CheckConnections(_, _, _)
CheckConnections(fields, conns, bound) ==
    IF conns = <<>> THEN "ok"
    ELSE LET c == Head(conns) IN
         IF <<c[3], c[4]>> \in bound THEN "PortAlreadyBoundError"
         ELSE IF ~(PortDeclared(fields, c[1], c[2]) /\ PortDeclared(fields, c[3], c[4]))
              THEN "UnknownPortError"
              ELSE CheckConnections(fields, Tail(conns), bound \cup {<<c[3], c[4]>>})

\* workflow.connect([...]): every connection is validated before any is added,
\* and a failed call leaves the graph as it was
connect(fields, conns, ns, es) ==
    LET err == CheckConnections(fields, conns, {<<e[3], e[4]>> : e \in es}) IN
    IF err = "ok"
    THEN [err |-> "ok",
          nodes |-> ns \cup {conns[i][1] : i \in DOMAIN conns}
                       \cup {conns[i][3] : i \in DOMAIN conns},
          edges |-> es \cup {conns[i] : i \in DOMAIN conns}]
    ELSE [err |-> err, nodes |-> ns, edges |-> es]

\* lines 188-193 with t2w_dseg wired to the port t2w_mask already feeds
Connect188_DoubleBound == <<
    <<"outputnode", "t2w_preproc", "anat_reports_wf", "inputnode.t1w_preproc">>,
    <<"outputnode", "t2w_mask", "anat_reports_wf", "inputnode.t1w_mask">>,
    <<"outputnode", "t2w_dseg", "anat_reports_wf", "inputnode.t1w_mask">> >>

\* lines 188-193
Connect188 == <<
    <<"outputnode", "t2w_preproc", "anat_reports_wf", "inputnode.t1w_preproc">>,
    <<"outputnode", "t2w_mask", "anat_reports_wf", "inputnode.t1w_mask">>,
    <<"outputnode", "t2w_dseg", "anat_reports_wf", "inputnode.t1w_dseg">> >>

\* lines 217-231
Connect217 == <<
    <<"inputnode", "subjects_dir", "outputnode", "subjects_dir">>,
    <<"inputnode", "subject_id", "outputnode", "subject_id">>,
    <<"inputnode", "subjects_dir", "anat_reports_wf", "inputnode.subjects_dir">>,
    <<"inputnode", "subject_id", "anat_reports_wf", "inputnode.subject_id">>,
    <<"templatesource", "template", "stdselect", "key">>,
    <<"outputnode", "std_preproc", "stdselect", "std_preproc">>,
    <<"outputnode", "std_mask", "stdselect", "std_mask">>,
    <<"stdselect", "key", "anat_reports_wf", "inputnode.template">>,
    <<"stdselect", "std_preproc", "anat_reports_wf", "inputnode.std_t1w">>,
    <<"stdselect", "std_mask", "anat_reports_wf", "inputnode.std_mask">> >>

\* lines 306-335
Connect306 == <<
    <<"inputnode", "t2w", "anat_template_wf", "inputnode.t1w">>,
    <<"anat_template_wf", "outputnode.t1w_ref", "anat_validate", "in_file">>,
    <<"anat_validate", "out_file", "brain_extraction_wf", "inputnode.in_files">>,
    <<"brain_extraction_wf", "outputnode.out_corrected", "outputnode", "t2w_preproc">>,
    <<"anat_template_wf", "outputnode.t1w_realign_xfm", "outputnode", "t2w_ref_xfms">>,
    <<"buffernode", "t2w_brain", "outputnode", "t2w_brain">>,
    <<"buffernode", "t2w_mask", "outputnode", "t2w_mask">>,
    <<"inputnode", "t2w", "anat_norm_wf", "inputnode.orig_t1w">>,
    <<"inputnode", "roi", "anat_norm_wf", "inputnode.lesion_mask">>,
    <<"brain_extraction_wf", "outputnode.out_corrected", "anat_norm_wf", "inputnode.moving_image">>,
    <<"buffernode", "t2w_mask", "anat_norm_wf", "inputnode.moving_mask">>,
    <<"anat_norm_wf", "poutputnode.standardized", "outputnode", "std_preproc">>,
    <<"anat_norm_wf", "poutputnode.std_mask", "outputnode", "std_mask">>,
    <<"anat_norm_wf", "poutputnode.std_dseg", "outputnode", "std_dseg">>,
    <<"anat_norm_wf", "poutputnode.std_tpms", "outputnode", "std_tpms">>,
    <<"anat_norm_wf", "outputnode.template", "outputnode", "template">>,
    <<"anat_norm_wf", "outputnode.anat2std_xfm", "outputnode", "anat2std_xfm">>,
    <<"anat_norm_wf", "outputnode.std2anat_xfm", "outputnode", "std2anat_xfm">> >>

----------------------------------------------------------------------------
(* Derivative sets: the existing_derivatives argument *)

DerivFields == {"template", "t2w_preproc", "std_preproc", "std_mask"}

\* the cached artifact reference of a field, for the template sequence tpls
CachedValue(f, tpls) ==
    CASE f = "template" -> tpls
      [] f = "t2w_preproc" -> "sub-01_desc-preproc_T2w.nii.gz"
      [] OTHER -> [i \in DOMAIN tpls |-> <<f, tpls[i]>>]

CachedTemplateSeqs == {s \in KeySeqs : Len(s) >= 1 /\ s[1] = "Fischer344"}

DerivativeMaps == {[f \in S |-> CachedValue(f, tpls)] :
                       S \in SUBSET DerivFields, tpls \in CachedTemplateSeqs}

NoDerivatives == [given |-> FALSE, map |-> EmptyMap]

DerivativeArgs == {NoDerivatives} \cup [given : {TRUE}, map : DerivativeMaps]

\* dict.pop(key) on a mapping that holds key: the mapping left behind
pop(map, key) == [f \in (DOMAIN map) \ {key} |-> map[f]]

\* fix_multi_source_name(in_files, modality=...), defined in ..utils
fix_multi_source_name(in_files, modality) == <<"fix_multi_source_name", in_files, modality>>

----------------------------------------------------------------------------
(* Idle values of the variables a specification does not use *)

PrepIdle ==
    /\ arg_mode = "force" /\ skull_strip_mode = "force"
    /\ existing_derivatives = NoDerivatives /\ derivs0 = NoDerivatives
    /\ t2w = <<>> /\ spaces = <<>>
    /\ pc = "idle" /\ nodes = {} /\ edges = {} /\ created = {}
    /\ outputnode_inputs = EmptyMap /\ reports_inputs = EmptyMap
    /\ node_iterables = EmptyMap
    /\ probeCalls = 0 /\ outcome = "idle" /\ call = 0 /\ firstOutcome = "none"

NormBuildIdle ==
    /\ normPc = "idle" /\ normOutcome = "idle"
    /\ normArgs = [debug |-> FALSE, omp_nthreads |-> 1]
    /\ normNodes = {} /\ normEdges = {} /\ normIterables = EmptyMap /\ ntpls = 0
    /\ registration = EmptyMap

NormIdle == templates = <<>> /\ NormBuildIdle

ExecIdle ==
    /\ K = <<>> /\ branch = <<>> /\ arrived = <<>>
    /\ join = "idle" /\ joined = EmptyMap /\ downstream = {}

ProbeIdle ==
    /\ imgs = <<>> /\ imgVerdicts = <<>> /\ verdict = "idle"

----------------------------------------------------------------------------
(* init_anat_preproc_wf, anatomical.py lines 25-409 *)

SkullStripModes == {"force", "skip", "auto"}

BuilderImages == {StrippedImage, UnstrippedImage}

\* the state at entry of a call: nothing built yet
EntryState ==
    /\ pc = "L165"
    /\ nodes = {} /\ edges = {} /\ created = {}
    /\ outputnode_inputs = EmptyMap /\ reports_inputs = EmptyMap
    /\ node_iterables = EmptyMap
    /\ probeCalls = 0 /\ outcome = "running"

Init ==
    /\ arg_mode \in SkullStripModes
    /\ skull_strip_mode = arg_mode
    /\ existing_derivatives \in DerivativeArgs
    /\ derivs0 = existing_derivatives
    /\ t2w \in SeqsUpTo(BuilderImages, MaxT2w)
    /\ spaces \in KeySeqs
    /\ EntryState
    /\ call = 1 /\ firstOutcome = "none"
    /\ NormIdle /\ ExecIdle /\ ProbeIdle

args == <<arg_mode, derivs0, t2w, spaces, call, firstOutcome>>

\* raise: the call ends with the error, the graph built so far is dropped with it
Raise(e) == pc' = "done" /\ outcome' = e

\* lines 164-193: the interface nodes, the reporting sub-workflow and its wiring
Setup ==
    /\ pc = "L165"
    /\ created' = created \cup {"inputnode", "outputnode", "anat_reports_wf"}
    /\ LET r == connect(IdentityFields, Connect188, nodes, edges) IN
         /\ nodes' = r.nodes
         /\ edges' = r.edges
         /\ IF r.err = "ok" THEN pc' = "L195" /\ outcome' = outcome
                            ELSE Raise(r.err)
    /\ UNCHANGED <<args, skull_strip_mode, existing_derivatives, outputnode_inputs,
                   reports_inputs, node_iterables, probeCalls>>

\* lines 195-216: the cached path binds outputnode to the derivatives
CachedBind ==
    /\ pc = "L195"
    /\ existing_derivatives.given
    /\ LET map == existing_derivatives.map IN
       IF "template" \notin DOMAIN map
       THEN \* existing_derivatives.pop('template') raises
            /\ Raise("KeyError")
            /\ UNCHANGED <<existing_derivatives, outputnode_inputs, reports_inputs,
                           node_iterables, created>>
       ELSE LET tpls == map["template"]
                rest == pop(map, "template")
            IN
            /\ existing_derivatives' = [given |-> TRUE, map |-> rest]
            /\ node_iterables' = [n \in {"templatesource"} |-> tpls]
            /\ outputnode_inputs' =
                   [f \in {"template"} \cup DOMAIN rest |->
                        IF f \in DOMAIN rest THEN rest[f] ELSE tpls]
            /\ IF "t2w_preproc" \notin DOMAIN rest
               THEN \* existing_derivatives['t2w_preproc'] raises
                    /\ Raise("KeyError")
                    /\ created' = created \cup {"templatesource"}
                    /\ UNCHANGED reports_inputs
               ELSE /\ reports_inputs' =
                          [f \in {"source_file"} |->
                               fix_multi_source_name(<<rest["t2w_preproc"]>>, "T2w")]
                    /\ created' = created \cup {"templatesource", "stdselect"}
                    /\ pc' = "L217"
                    /\ outcome' = outcome
    /\ UNCHANGED <<args, skull_strip_mode, nodes, edges, probeCalls>>

\* lines 217-232: the cached path's wiring, and its return
CachedConnect ==
    /\ pc = "L217"
    /\ LET r == connect(IdentityFields, Connect217, nodes, edges) IN
         /\ nodes' = r.nodes
         /\ edges' = r.edges
         /\ IF r.err = "ok" THEN pc' = "done" /\ outcome' = "returned"
                            ELSE Raise(r.err)
    /\ UNCHANGED <<args, skull_strip_mode, existing_derivatives, created,
                   outputnode_inputs, reports_inputs, node_iterables, probeCalls>>

\* lines 234-270: buffernode, the template sub-workflow and the validator
ComputedPrep ==
    /\ pc = "L195"
    /\ ~existing_derivatives.given
    /\ created' = created \cup {"buffernode", "anat_template_wf", "anat_validate"}
    /\ pc' = "L273"
    /\ UNCHANGED <<args, skull_strip_mode, existing_derivatives, nodes, edges,
                   outputnode_inputs, reports_inputs, node_iterables, probeCalls,
                   outcome>>

\* the probe is asked for also by 'force'
ModeIsAutoOrForce(mode) == mode \in {"auto", "force"}

\* line 273: skull_strip_mode == 'auto'
ModeIsAuto(mode) == mode = "auto"

\* lines 273-288: in mode 'auto' the probe result replaces skull_strip_mode
BrainExtractionMode ==
    /\ pc = "L273"
    /\ IF ModeIsAuto(skull_strip_mode)
       THEN /\ probeCalls' = probeCalls + 1
            /\ skull_strip_mode' = BoolStr(_is_skull_stripped(t2w))
       ELSE UNCHANGED <<probeCalls, skull_strip_mode>>
    /\ pc' = "L290"
    /\ UNCHANGED <<args, existing_derivatives, nodes, edges, created,
                   outputnode_inputs, reports_inputs, node_iterables, outcome>>

\* line 290: skull_strip_mode in (True, 'skip')
AlreadyStripped(mode) == mode \in {"True", "skip"}

\* lines 290-297: stripped or skipped inputs are refused, else brain extraction
SelectVariant ==
    /\ pc = "L290"
    /\ IF AlreadyStripped(skull_strip_mode)
       THEN Raise("NotImplementedError") /\ UNCHANGED created
       ELSE /\ created' = created \cup {"brain_extraction_wf"}
            /\ pc' = "L300"
            /\ outcome' = outcome
    /\ UNCHANGED <<args, skull_strip_mode, existing_derivatives, nodes, edges,
                   outputnode_inputs, reports_inputs, node_iterables, probeCalls>>

\* lines 299-304: the normalization sub-workflow, expanded over the standard spaces
NormWf ==
    /\ pc = "L300"
    /\ created' = created \cup {"anat_norm_wf"}
    /\ node_iterables' = [n \in {"anat_norm_wf.inputnode"} |-> spaces]
    /\ pc' = "L306"
    /\ UNCHANGED <<args, skull_strip_mode, existing_derivatives, nodes, edges,
                   outputnode_inputs, reports_inputs, probeCalls, outcome>>

\* lines 306-335: the wiring of steps 1 to 4
ConnectSteps ==
    /\ pc = "L306"
    /\ LET r == connect(IdentityFields, Connect306, nodes, edges) IN
         /\ nodes' = r.nodes
         /\ edges' = r.edges
         /\ IF r.err = "ok" THEN pc' = "L338" /\ outcome' = outcome
                            ELSE Raise(r.err)
    /\ UNCHANGED <<args, skull_strip_mode, existing_derivatives, created,
                   outputnode_inputs, reports_inputs, node_iterables, probeCalls>>

\* the caller calls init_anat_preproc_wf again with the same arguments: the
\* mapping object is the one the previous call was given
CallAgain ==
    /\ pc = "done"
    /\ call < MaxCalls
    /\ call' = call + 1
    /\ firstOutcome' = IF call = 1 THEN outcome ELSE firstOutcome
    /\ skull_strip_mode' = arg_mode
    /\ pc' = "L165"
    /\ nodes' = {} /\ edges' = {} /\ created' = {}
    /\ outputnode_inputs' = EmptyMap /\ reports_inputs' = EmptyMap
    /\ node_iterables' = EmptyMap
    /\ probeCalls' = 0 /\ outcome' = "running"
    /\ UNCHANGED <<arg_mode, derivs0, t2w, spaces, existing_derivatives>>

Next ==
    \/ (Setup /\ UNCHANGED <<normVars, execVars, probeVars>>)
    \/ (CachedBind /\ UNCHANGED <<normVars, execVars, probeVars>>)
    \/ (CachedConnect /\ UNCHANGED <<normVars, execVars, probeVars>>)
    \/ (ComputedPrep /\ UNCHANGED <<normVars, execVars, probeVars>>)
    \/ (BrainExtractionMode /\ UNCHANGED <<normVars, execVars, probeVars>>)
    \/ (SelectVariant /\ UNCHANGED <<normVars, execVars, probeVars>>)
    \/ (NormWf /\ UNCHANGED <<normVars, execVars, probeVars>>)
    \/ (ConnectSteps /\ UNCHANGED <<normVars, execVars, probeVars>>)
    \/ (CallAgain /\ UNCHANGED <<normVars, execVars, probeVars>>)

Spec == Init /\ [][Next]_vars

----------------------------------------------------------------------------
(* Claims about init_anat_preproc_wf, checked under Spec *)

Finished == pc = "done"

\* C1: with skull_strip_mode='auto', no existing derivatives and a batch the
\* probe classifies as skull-stripped, the call raises the configuration error
\* (NotImplementedError), and at that moment the workflow graph has no node.
C1_RaisesBeforeAnyNode ==
    (Finished /\ arg_mode = "auto" /\ ~derivs0.given /\ _is_skull_stripped(t2w))
        => (outcome = "NotImplementedError" /\ nodes = {})

\* C2 as stated: in every call, with or without existing derivatives, modes
\* 'skip' and 'force' never invoke the probe and mode 'auto' always does.
C2_AutoAlwaysProbes ==
    /\ arg_mode \in {"skip", "force"} => probeCalls = 0
    /\ (Finished /\ arg_mode = "auto") => probeCalls >= 1

\* C2 as amended: modes 'skip' and 'force' never invoke the probe; a call given
\* existing derivatives never invokes it; a call in mode 'auto' without
\* existing derivatives has invoked it exactly once when it ends.
C2_AutoProbesUnlessCached ==
    /\ arg_mode \in {"skip", "force"} => probeCalls = 0
    /\ derivs0.given => probeCalls = 0
    /\ (Finished /\ arg_mode = "auto" /\ ~derivs0.given) => probeCalls = 1

\* a finished call in mode 'auto' without derivatives that ran the probe, which
\* found the batch not stripped
C2_Witness ==
    /\ Finished /\ arg_mode = "auto" /\ ~derivs0.given
    /\ probeCalls = 1 /\ skull_strip_mode = "False"

\* C3: a derivative set that has 'template' and 't2w_preproc' but lacks
\* 'std_preproc' makes graph construction fail with the incomplete-set error.
C3_IncompleteSetRaises ==
    (/\ Finished /\ derivs0.given
     /\ {"template", "t2w_preproc"} \subseteq DOMAIN derivs0.map
     /\ "std_preproc" \notin DOMAIN derivs0.map)
        => outcome = "IncompleteDerivativeSetError"

\* C4: given a complete derivative set the call returns a graph without any
\* compute node, with every field of the set bound on outputnode to its cached
\* reference.
C4_CachedGraphReturned ==
    (Finished /\ derivs0.given /\ DOMAIN derivs0.map = DerivFields)
        => /\ outcome = "returned"
           /\ nodes \cap ComputeNodes = {}
           /\ \A f \in DerivFields :
                  /\ f \in DOMAIN outputnode_inputs
                  /\ outputnode_inputs[f] = derivs0.map[f]

\* C9: a call leaves the caller's existing_derivatives mapping as it was, and a
\* second call with the same arguments ends as the first did.
C9_ArgumentsUntouched ==
    /\ existing_derivatives = derivs0
    /\ (Finished /\ call > 1) => outcome = firstOutcome

\* C10: with skull_strip_mode='skip' and no existing derivatives the call
\* returns a workflow that has no brain-extraction sub-graph.
C10_SkipReturnsWorkflow ==
    (Finished /\ arg_mode = "skip" /\ ~derivs0.given)
        => (outcome = "returned" /\ "brain_extraction_wf" \notin nodes)

----------------------------------------------------------------------------
(* init_anat_norm_wf, rs_fmri.py lines 91-263 *)

\* line 185: out_fields
out_fields == {"anat2std_xfm", "standardized", "std2anat_xfm", "std_mask",
               "template", "template_spec"}

\* lines 171-182: the fields of inputnode
norm_inputnode_fields == {"lesion_mask", "moving_image", "moving_mask", "orig_t1w",
                          "template"}

NormIdentityFields == [inputnode |-> norm_inputnode_fields,
                       poutputnode |-> out_fields,
                       outputnode |-> out_fields]

\* the iterables set to the templates in reverse order
ReversedIterables(tpls) == [i \in DOMAIN tpls |-> tpls[Len(tpls) + 1 - i]]

\* line 183: inputnode.iterables = [("template", templates)], the key sequence
inputnode_iterables(tpls) == tpls

\* line 204: flavor=["precise", "testing"][debug]
flavor(debug) == IF debug THEN "testing" ELSE "precise"

\* lines 229-248
NormConnect229 == <<
    <<"inputnode", "template", "poutputnode", "template">>,
    <<"inputnode", "moving_image", "trunc_mov", "op1">>,
    <<"inputnode", "moving_mask", "registration", "moving_mask">>,
    <<"inputnode", "lesion_mask", "registration", "lesion_mask">>,
    <<"inputnode", "moving_image", "tpl_moving", "input_image">>,
    <<"inputnode", "moving_mask", "std_mask", "input_image">>,
    <<"split_desc", "name", "registration", "template">>,
    <<"split_desc", "spec", "registration", "template_spec">>,
    <<"trunc_mov", "output_image", "registration", "moving_image">>,
    <<"registration", "composite_transform", "tpl_moving", "transforms">>,
    <<"registration", "composite_transform", "std_mask", "transforms">>,
    <<"registration", "composite_transform", "poutputnode", "anat2std_xfm">>,
    <<"registration", "inverse_composite_transform", "poutputnode", "std2anat_xfm">>,
    <<"tpl_moving", "output_image", "poutputnode", "standardized">>,
    <<"std_mask", "output_image", "poutputnode", "std_mask">> >>

\* the node names a connection list reads that no statement has bound
UnboundNames(conns, bound) ==
    ({conns[i][1] : i \in DOMAIN conns} \cup {conns[i][3] : i \in DOMAIN conns}) \ bound

\* line 252: outputnode is a pe.JoinNode (a plain pe.Node when FALSE)
OutputnodeIsPlainNode == FALSE
OutputnodeIsJoinNode == TRUE

\* line 255: joinsource="inputnode"
outputnode_joinsource == "inputnode"

\* line 259: (poutputnode, outputnode, [(f, f) for f in out_fields])
NormConnect258 == {<<"poutputnode", f, "outputnode", f>> : f \in out_fields}

NormInit ==
    /\ templates \in KeySeqs
    /\ normArgs \in [debug : BOOLEAN, omp_nthreads : 1..MaxThreads]
    /\ normPc = "L164" /\ normOutcome = "running"
    /\ normNodes = {} /\ normEdges = {} /\ normIterables = EmptyMap /\ ntpls = 0
    /\ registration = EmptyMap
    /\ PrepIdle /\ ExecIdle /\ ProbeIdle

\* lines 164-193: ntpls, the workflow, inputnode with its iterables, poutputnode
NormSetup ==
    /\ normPc = "L164"
    /\ ntpls' = Len(templates)
    /\ normNodes' = normNodes \cup {"inputnode", "poutputnode"}
    /\ normIterables' = [f \in {"template"} |-> inputnode_iterables(templates)]
    /\ normPc' = "L198"
    /\ UNCHANGED <<templates, normArgs, normOutcome, normEdges, registration>>

\* lines 198-227: trunc_mov, registration, tpl_moving and std_mask
NormNodes ==
    /\ normPc = "L198"
    /\ normNodes' = normNodes \cup {"trunc_mov", "registration", "tpl_moving", "std_mask"}
    /\ registration' = [flavor |-> flavor(normArgs.debug),
                        n_procs |-> normArgs.omp_nthreads, mem_gb |-> 2]
    /\ normPc' = "L229"
    /\ UNCHANGED <<templates, normArgs, normOutcome, normEdges, normIterables, ntpls>>

\* lines 229-248: the connection list is evaluated, then handed to connect
NormConnect ==
    /\ normPc = "L229"
    /\ IF UnboundNames(NormConnect229, normNodes) # {}
       THEN /\ normPc' = "done" /\ normOutcome' = "NameError"
            /\ UNCHANGED <<normNodes, normEdges>>
       ELSE LET r == connect(NormIdentityFields, NormConnect229, normNodes, normEdges) IN
            /\ normEdges' = r.edges
            /\ UNCHANGED normNodes
            /\ IF r.err = "ok" THEN normPc' = "L252" /\ normOutcome' = normOutcome
                               ELSE normPc' = "done" /\ normOutcome' = r.err
    /\ UNCHANGED <<templates, normArgs, registration, normIterables, ntpls>>

NormNext ==
    \/ (NormSetup /\ UNCHANGED <<prepVars, execVars, probeVars>>)
    \/ (NormNodes /\ UNCHANGED <<prepVars, execVars, probeVars>>)
    \/ (NormConnect /\ UNCHANGED <<prepVars, execVars, probeVars>>)

NormSpec == NormInit /\ [][NormNext]_vars

\* C8: init_anat_norm_wf called with templates=[] raises the empty-iterable
\* error: once the builder is past its first statement it has raised it.
C8_EmptyTemplatesRaise ==
    (templates = <<>> /\ normPc # "L164") => normOutcome = "EmptyIterableError"

----------------------------------------------------------------------------
(* Execution of the expansion and the join that init_anat_norm_wf declares.  *)
(* The engine that expands inputnode over its iterables and synchronizes the *)
(* branches at outputnode is not part of the sources; it is modelled here    *)
(* from the specification's sections 4.2, 4.3 and 5.                         *)

\* the value the branch of key k delivers at the field f of poutputnode
BranchOutput(k, f) == IF f = "template" THEN k ELSE <<f, k>>

\* outputnode joins the branches of the expansion rooted at the node `root`
JoinsExpansionOf(root) == OutputnodeIsJoinNode /\ outputnode_joinsource = root

\* the fields of outputnode that have an incoming connection
JoinedFields == {c[4] : c \in {d \in NormConnect258 : d[3] = "outputnode"}}

\* the poutputnode field wired to the field f of outputnode
SourceField(f) ==
    (CHOOSE c \in NormConnect258 : c[3] = "outputnode" /\ c[4] = f)[2]

\* what the branches that completed so far delivered, by key index
Delivered(i) == (CHOOSE n \in DOMAIN arrived : arrived[n].idx = i)

ExecInit ==
    /\ templates \in KeySeqs \ {<<>>}
    /\ K = inputnode_iterables(templates)
    /\ branch = [i \in DOMAIN templates |-> "pending"]
    /\ arrived = <<>>
    /\ join = "waiting"
    /\ joined = EmptyMap
    /\ downstream = {}
    /\ NormBuildIdle /\ PrepIdle /\ ProbeIdle

\* a branch starts; branches are independent of each other
StartBranch(i) ==
    /\ branch[i] = "pending"
    /\ branch' = [branch EXCEPT ![i] = "running"]
    /\ UNCHANGED <<K, arrived, join, joined, downstream>>

\* a branch completes and delivers its outputs; a node that is no join is
\* part of the branch and hands its value on at once
CompleteBranch(i) ==
    /\ branch[i] = "running"
    /\ branch' = [branch EXCEPT ![i] = "done"]
    /\ LET out == [f \in out_fields |-> BranchOutput(K[i], f)] IN
       /\ arrived' = Append(arrived, [idx |-> i, out |-> out])
       /\ downstream' =
              IF JoinsExpansionOf("inputnode") THEN downstream
              ELSE downstream \cup {[f \in JoinedFields |-> <<out[SourceField(f)]>>]}
    /\ UNCHANGED <<K, join, joined>>

\* a branch fails: the join it contributes to fails with it, its siblings go on
FailBranch(i) ==
    /\ branch[i] = "running"
    /\ branch' = [branch EXCEPT ![i] = "failed"]
    /\ join' = IF join = "waiting" THEN "failed" ELSE join
    /\ UNCHANGED <<K, arrived, joined, downstream>>

\* every branch completed: the join releases its collections, each ordered by
\* the key order of the expansion
ReleaseJoin ==
    /\ JoinsExpansionOf("inputnode")
    /\ join = "waiting"
    /\ \A i \in DOMAIN branch : branch[i] = "done"
    /\ join' = "released"
    /\ joined' = [f \in JoinedFields |->
                      [i \in DOMAIN K |-> arrived[Delivered(i)].out[SourceField(f)]]]
    /\ downstream' = downstream \cup {joined'}
    /\ UNCHANGED <<K, branch, arrived>>

ExecNext ==
    \/ \E i \in DOMAIN branch :
           StartBranch(i) /\ UNCHANGED <<prepVars, normVars, probeVars>>
    \/ \E i \in DOMAIN branch :
           CompleteBranch(i) /\ UNCHANGED <<prepVars, normVars, probeVars>>
    \/ \E i \in DOMAIN branch :
           FailBranch(i) /\ UNCHANGED <<prepVars, normVars, probeVars>>
    \/ (ReleaseJoin /\ UNCHANGED <<prepVars, normVars, probeVars>>)

ExecSpec == ExecInit /\ [][ExecNext]_vars

----------------------------------------------------------------------------
(* The probe classifier on its own, anatomical.py lines 277-288 *)

ProbeInit ==
    /\ imgs \in SeqsUpTo(Images, MaxImgs)
    /\ imgVerdicts = <<>>
    /\ verdict = "running"
    /\ PrepIdle /\ NormIdle /\ ExecIdle

\* line 288: _is_skull_stripped(t2w)
RunProbe ==
    /\ verdict = "running"
    /\ imgVerdicts' = [i \in 1..LoadedCount(imgs) |-> _check_img(imgs[i])]
    /\ verdict' = BoolStr(_is_skull_stripped(imgs))
    /\ UNCHANGED imgs

ProbeNext == RunProbe /\ UNCHANGED <<prepVars, normVars, execVars>>

ProbeSpec == ProbeInit /\ [][ProbeNext]_vars

\* the number of outer face slices a voxel lies on
FaceCount(p) ==
    Cardinality({<<axis, end>> \in (1..3) \X {1, Dim} : p[axis] = end})

Voxel(n) == <<((n - 1) \div (Dim * Dim)) + 1,
              (((n - 1) \div Dim) % Dim) + 1,
              ((n - 1) % Dim) + 1>>

\* the absolute intensities over the six face slices, voxel by voxel
FaceSum(img) ==
    SumSeq([n \in 1..(Dim * Dim * Dim) |->
              FaceCount(Voxel(n)) *
                  (IF Voxel(n) = img.hot THEN Abs(img.val) ELSE Abs(img.fill))])

\* C5: an image is classified skull-stripped exactly when the sum of the
\* absolute intensities over its six outer face slices is strictly below 10,
\* and a batch exactly when every image of it is.
C5_ProbeRule ==
    verdict # "running" =>
        /\ \A i \in DOMAIN imgVerdicts : imgVerdicts[i] <=> (FaceSum(imgs[i]) < 10)
        /\ (verdict = "True") <=> (\A i \in DOMAIN imgs : FaceSum(imgs[i]) < 10)

\* a batch refused for an image whose face sum is exactly 10, after an image
\* below the threshold
C5_Witness ==
    /\ verdict = "False"
    /\ Len(imgs) = 2
    /\ FaceSum(imgs[1]) < 10
    /\ FaceSum(imgs[2]) = 10
    /\ imgVerdicts = <<TRUE, FALSE>>

----------------------------------------------------------------------------
(* The template dimension of the cached path, anatomical.py lines 202-231 *)

\* KeySelect(fields=[...], keys=keys): the element of a field at the position
\* the key has in keys
KeySelect(keys, key, values) == values[CHOOSE i \in DOMAIN keys : keys[i] = key]

\* lines 223-230: the wiring that takes a template key and the cached
\* std_preproc and std_mask through stdselect to the reporting sub-workflow
StdselectWiring == {
    <<"templatesource", "template", "stdselect", "key">>,
    <<"outputnode", "std_preproc", "stdselect", "std_preproc">>,
    <<"outputnode", "std_mask", "stdselect", "std_mask">>,
    <<"stdselect", "key", "anat_reports_wf", "inputnode.template">>,
    <<"stdselect", "std_preproc", "anat_reports_wf", "inputnode.std_t1w">>,
    <<"stdselect", "std_mask", "anat_reports_wf", "inputnode.std_mask">> }

\* the graph takes the branches of templatesource through to anat_reports_wf
ReportsFed ==
    /\ StdselectWiring \subseteq edges
    /\ "templatesource" \in DOMAIN node_iterables
    /\ {"std_preproc", "std_mask"} \subseteq DOMAIN outputnode_inputs

\* what the i-th branch of templatesource hands to anat_reports_wf
ReportsFeed(i) ==
    LET keys == node_iterables["templatesource"]
        key == keys[i]
    IN  [template |-> key,
         std_t1w |-> KeySelect(keys, key, outputnode_inputs["std_preproc"]),
         std_mask |-> KeySelect(keys, key, outputnode_inputs["std_mask"])]

\* C11: in the cached path outputnode.template is the cached template
\* sequence, there is one branch per template key in that order, and the
\* branch of the i-th key hands the reporting sub-workflow that key with the
\* i-th cached std_preproc and the i-th cached std_mask.
C11_CachedTemplateOrder ==
    (Finished /\ call = 1 /\ derivs0.given /\ DOMAIN derivs0.map = DerivFields)
        => LET tpls == derivs0.map["template"] IN
           /\ "template" \in DOMAIN outputnode_inputs
           /\ outputnode_inputs["template"] = tpls
           /\ "templatesource" \in DOMAIN node_iterables
           /\ node_iterables["templatesource"] = tpls
           /\ ReportsFed
           /\ \A i \in DOMAIN tpls :
                  ReportsFeed(i) = [template |-> tpls[i],
                                    std_t1w |-> derivs0.map["std_preproc"][i],
                                    std_mask |-> derivs0.map["std_mask"][i]]

\* the part of C11 the cached path does establish before its wiring fails:
\* the template order on outputnode and on the iterables of templatesource
C11_OrderBoundBeforeWiring ==
    /\ Finished /\ call = 1 /\ derivs0.given /\ DOMAIN derivs0.map = DerivFields
    /\ Len(derivs0.map["template"]) >= 2
    /\ outputnode_inputs["template"] = derivs0.map["template"]
    /\ node_iterables["templatesource"] = derivs0.map["template"]
    /\ ~ReportsFed

----------------------------------------------------------------------------
(* The connect calls of the computed path after line 335.  The builder does  *)
(* not get to them (ConnectSteps raises); they are the wiring it would add.  *)

\* lines 341-345
Connect341 == <<
    <<"lut_t1w_dseg", "out", "anat_norm_wf", "inputnode.moving_segmentation">>,
    <<"lut_t1w_dseg", "out", "outputnode", "t1w_dseg">> >>

\* lines 348-359
Connect348 == <<
    <<"inputnode", "t2w", "anat_reports_wf", "inputnode.source_file">>,
    <<"outputnode", "std_preproc", "anat_reports_wf", "inputnode.std_t1w">>,
    <<"outputnode", "std_mask", "anat_reports_wf", "inputnode.std_mask">>,
    <<"anat_template_wf", "outputnode.out_report", "anat_reports_wf", "inputnode.t1w_conform_report">>,
    <<"anat_norm_wf", "poutputnode.template", "anat_reports_wf", "inputnode.template">> >>

\* lines 369-389
Connect369 == <<
    <<"anat_template_wf", "outputnode.t1w_valid_list", "anat_derivatives_wf", "inputnode.source_files">>,
    <<"anat_norm_wf", "poutputnode.template", "anat_derivatives_wf", "inputnode.template">>,
    <<"anat_norm_wf", "poutputnode.anat2std_xfm", "anat_derivatives_wf", "inputnode.anat2std_xfm">>,
    <<"anat_norm_wf", "poutputnode.std2anat_xfm", "anat_derivatives_wf", "inputnode.std2anat_xfm">>,
    <<"outputnode", "std_preproc", "anat_derivatives_wf", "inputnode.std_t1w">>,
    <<"outputnode", "t2w_ref_xfms", "anat_derivatives_wf", "inputnode.t1w_ref_xfms">>,
    <<"outputnode", "t2w_preproc", "anat_derivatives_wf", "inputnode.t1w_preproc">>,
    <<"outputnode", "t2w_mask", "anat_derivatives_wf", "inputnode.t1w_mask">>,
    <<"outputnode", "t2w_dseg", "anat_derivatives_wf", "inputnode.t1w_dseg">>,
    <<"outputnode", "t2w_tpms", "anat_derivatives_wf", "inputnode.t1w_tpms">>,
    <<"outputnode", "std_mask", "anat_derivatives_wf", "inputnode.std_mask">>,
    <<"outputnode", "std_dseg", "anat_derivatives_wf", "inputnode.std_dseg">>,
    <<"outputnode", "std_tpms", "anat_derivatives_wf", "inputnode.std_tpms">> >>

\* lines 399-408
Connect399 == <<
    <<"brain_extraction_wf", "outputnode.out_brain", "buffernode", "t2w_brain">>,
    <<"brain_extraction_wf", "outputnode.out_mask", "buffernode", "t2w_mask">>,
    <<"buffernode", "t2w_brain", "t1w_dseg", "in_files">>,
    <<"t1w_dseg", "partial_volume_map", "lut_t1w_dseg", "in_dseg">>,
    <<"t1w_dseg", "partial_volume_files", "fast2bids", "inlist">>,
    <<"fast2bids", "out", "anat_norm_wf", "inputnode.moving_tpms">>,
    <<"fast2bids", "out", "outputnode", "t2w_tpms">> >>

\* the connect calls of each path, in the order the builder makes them
CachedCalls == <<Connect188, Connect217>>
ComputedCalls == <<Connect188, Connect306, Connect341, Connect348, Connect369, Connect399>>

RECURSIVE Concat(_)
Concat(lists) == IF lists = <<>> THEN <<>> ELSE Head(lists) \o Concat(Tail(lists))

\* the connections of the first n connect calls of a path
WiredByPrefix(calls, n) == Concat(SubSeq(calls, 1, n))

----------------------------------------------------------------------------
(* Claims about the wiring of init_anat_preproc_wf, checked under Spec *)

\* no two connections of a sequence end at the same input port
SingleIncoming(conns) ==
    \A i, j \in DOMAIN conns :
        (conns[i][3] = conns[j][3] /\ conns[i][4] = conns[j][4]) => i = j

\* after each prefix of the connect calls of either path, taken as the code
\* lists them, no input port is named twice as a destination
PrefixesSingleIncoming ==
    /\ \A n \in 0..Len(CachedCalls) : SingleIncoming(WiredByPrefix(CachedCalls, n))
    /\ \A n \in 0..Len(ComputedCalls) : SingleIncoming(WiredByPrefix(ComputedCalls, n))

\* C12: in the graph of the cached path and of the computed path, after any
\* prefix of the builder's connect calls every input port has at most one
\* incoming connection, and no connect call ends on an already-bound port.
C12_SingleIncomingConnection ==
    /\ \A e1, e2 \in edges : (e1[3] = e2[3] /\ e1[4] = e2[4]) => e1 = e2
    /\ outcome # "PortAlreadyBoundError"
    /\ PrefixesSingleIncoming

\* the computed path in mode 'force' after its first connect call went through
\* and its second was refused, for a reason other than a bound port
C12_Witness ==
    /\ Finished /\ arg_mode = "force" /\ ~derivs0.given
    /\ edges = {Connect188[i] : i \in DOMAIN Connect188}
    /\ outcome = "UnknownPortError"

\* the ports of inputnode and outputnode that a list of connections names
\* without the node declaring them
UndeclaredInterfacePorts(conns) ==
    {<<conns[i][1], conns[i][2]>> : i \in
        {k \in DOMAIN conns : /\ conns[k][1] \in {"inputnode", "outputnode"}
                              /\ ~PortDeclared(IdentityFields, conns[k][1], conns[k][2])}}
    \cup
    {<<conns[i][3], conns[i][4]>> : i \in
        {k \in DOMAIN conns : /\ conns[k][3] \in {"inputnode", "outputnode"}
                              /\ ~PortDeclared(IdentityFields, conns[k][3], conns[k][4])}}

\* a finished call that got as far as the connect call of its path (line 217
\* or line 306): neither the KeyError of the cached path nor the
\* NotImplementedError of the computed path ended it before
ReachedPathWiring == Finished /\ outcome \notin {"KeyError", "NotImplementedError"}

\* C13: every connection to or from inputnode and outputnode names a declared
\* port (outputnode: its eleven fields, inputnode: its five), on the cached and
\* on the computed path, so no call of the builder ends in UnknownPortError.
C13_InterfacePortsDeclared ==
    ReachedPathWiring =>
        /\ outcome # "UnknownPortError"
        /\ UndeclaredInterfacePorts(Concat(CachedCalls)) = {}
        /\ UndeclaredInterfacePorts(Concat(ComputedCalls)) = {}

\* a call ended by the ports that outputnode does not declare: subjects_dir and
\* subject_id on the cached path, t2w_ref_xfms, t2w_brain and t1w_dseg on the
\* computed path; every inputnode port used is declared
C13_UndeclaredOutputnodePorts ==
    /\ Finished /\ outcome = "UnknownPortError"
    /\ Cardinality(outputnode_fields) = 11 /\ Cardinality(inputnode_fields) = 5
    /\ UndeclaredInterfacePorts(Concat(CachedCalls)) =
           {<<"outputnode", "subjects_dir">>, <<"outputnode", "subject_id">>}
    /\ UndeclaredInterfacePorts(Concat(ComputedCalls)) =
           {<<"outputnode", "t2w_ref_xfms">>, <<"outputnode", "t2w_brain">>,
            <<"outputnode", "t1w_dseg">>}

\* the connections of the computed path, all its connect calls taken together
ComputedWiring == {Concat(ComputedCalls)[i] : i \in DOMAIN Concat(ComputedCalls)}

\* the declared outputnode fields that the computed path wires onward to
\* anat_reports_wf (lines 188-193, 351-354) or anat_derivatives_wf (378-388)
OnwardFields ==
    {e[2] : e \in {c \in ComputedWiring :
                      /\ c[1] = "outputnode"
                      /\ c[3] \in {"anat_reports_wf", "anat_derivatives_wf"}}}
    \cap outputnode_fields

\* port of node has an incoming connection in conns that comes from a compute
\* node, directly or through buffernode
FedFromCompute(conns, node, port) ==
    \E c \in conns :
        /\ c[3] = node /\ c[4] = port
        /\ \/ c[1] \in ComputeNodes
           \/ /\ c[1] = "buffernode"
              /\ \E b \in conns : /\ b[3] = "buffernode" /\ b[4] = c[2]
                                  /\ b[1] \in ComputeNodes

\* C14: on the computed path the builder returns a graph in which every
\* outputnode field wired onward to the reporting or the derivatives-writer
\* sub-graph (t2w_preproc, t2w_mask, t2w_dseg, t2w_tpms, std_preproc, std_mask,
\* std_dseg, std_tpms) has an incoming connection from an upstream compute node.
C14_OnwardFieldsAreFed ==
    (Finished /\ ~derivs0.given /\ outcome \notin {"KeyError", "NotImplementedError"})
        => /\ outcome = "returned"
           /\ \A f \in OnwardFields : FedFromCompute(edges, "outputnode", f)
           /\ \A f \in OnwardFields : FedFromCompute(ComputedWiring, "outputnode", f)

\* a finished computed-path call: the eight onward fields are the ones wired
\* to the sub-graphs, and of them the connect calls of lines 306-408 leave
\* t2w_dseg without any incoming connection (line 344 names t1w_dseg)
C14_DsegNeverFed ==
    /\ Finished /\ ~derivs0.given /\ arg_mode = "force"
    /\ OnwardFields = {"t2w_preproc", "t2w_mask", "t2w_dseg", "t2w_tpms",
                       "std_preproc", "std_mask", "std_dseg", "std_tpms"}
    /\ {f \in OnwardFields : ~FedFromCompute(ComputedWiring, "outputnode", f)}
           = {"t2w_dseg"}
    /\ ~\E c \in ComputedWiring : c[3] = "outputnode" /\ c[4] = "t2w_dseg"
    /\ <<"lut_t1w_dseg", "out", "outputnode", "t1w_dseg">> \in ComputedWiring

====
